---- MODULE Spec2Model ----
(***************************************************************************)
(* vibe-assistant: the task plan written by init / parse_prd / update, the *)
(* progress state kept in docs/progress/state.json, and the get_next_task  *)
(* resolver of the MCP server that reads both.                             *)
(*                                                                         *)
(* Strings that the code inspects character by character (task ids, the    *)
(* `phase${n}-` prefix) are sequences of characters; the literal words     *)
(* "phase" and "task" are one element each.  The optional completedAt and  *)
(* notes of a progress record are modelled by their presence.  lastUpdated *)
(* and free text (titles, descriptions, summaries) are left out: no        *)
(* operation modelled here branches on them.                               *)
(***************************************************************************)
EXTENDS Integers, Sequences, FiniteSets, TLC

\* ------------------------------------------------------------------ bounds

\* Tasks and dependency references of a generated plan handed to the resolver.
MaxTasks == 3
MaxEdges == 2
\* The same, for the plans handed to init and update in the full specification.
MaxUpdateTasks == 2
\* A multi-digit phase number the generator may emit besides the phases 1 and 2.
HighPhase == 10
\* Entries the agent adds to the checkpoints array.
MaxCheckpoints == 1
\* Tasks of a generated plan handed to the first init, ids and dependencies free.
MaxCompileTasks == 2

PhaseNums == {1, 2, HighPhase}

\* ------------------------------------------------------------------ strings

DigitChars == <<"0", "1", "2", "3", "4", "5", "6", "7", "8", "9">>

\* Number -> decimal text, as a template literal `${n}` prints it.
RECURSIVE Digits(_)
Digits(n) ==
    IF n < 10 THEN <<DigitChars[n + 1]>>
    ELSE Digits(n \div 10) \o <<DigitChars[(n % 10) + 1]>>

\* String.prototype.startsWith
StartsWith(s, prefix) ==
    /\ Len(s) >= Len(prefix)
    /\ SubSeq(s, 1, Len(prefix)) = prefix

\* The id convention of the generator prompt: phase{N}-task{M}.
TaskId(n, m) == <<"phase">> \o Digits(n) \o <<"-", "task">> \o Digits(m)

\* An id no plan of the model declares (a dangling dependency reference).
DanglingId == TaskId(1, 9)

Statuses == {"pending", "in_progress", "completed"}

\* ------------------------------------------------------------------ sequences

Range(s) == {s[i] : i \in DOMAIN s}

RECURSIVE SeqSum(_)
SeqSum(s) == IF s = <<>> THEN 0 ELSE Head(s) + SeqSum(Tail(s))

RECURSIVE Flatten(_)
Flatten(ss) == IF ss = <<>> THEN <<>> ELSE Head(ss) \o Flatten(Tail(ss))

\* The elements of a finite set of integers, ascending.
RECURSIVE Ascending(_)
Ascending(S) ==
    IF S = {} THEN <<>>
    ELSE LET lo == CHOOSE x \in S : \A y \in S : x <= y
         IN <<lo>> \o Ascending(S \ {lo})

Min(S) == CHOOSE x \in S : \A y \in S : x <= y

\* All subsets of S with at most k elements.
RECURSIVE SubsetsUpTo(_, _)
SubsetsUpTo(S, k) ==
    IF k = 0 THEN {{}}
    ELSE LET smaller == SubsetsUpTo(S, k - 1)
         IN smaller \cup {s \cup {x} : s \in smaller, x \in S}

\* ------------------------------------------------------------------ generated plans

(***************************************************************************)
(* The JSON the model answers to PARSE_SYSTEM_PROMPT (ParseResponse): the  *)
(* phases in the order given, each with its number and its tasks in        *)
(* declaration order; a task is its id and its dependency ids.  parsePRD   *)
(* checks nothing, so dependencies may dangle, point forward to a later    *)
(* phase, name the task itself or close a cycle, and phase numbers may     *)
(* leave gaps.  Ids follow the prompt's convention and are distinct.       *)
(***************************************************************************)
RawTask(id, E) == [id |-> id, dependencies |-> {e[2] : e \in {x \in E : x[1] = id}}]

RawPhase(p, n, desc, E) ==
    [number |-> p,
     tasks  |-> [i \in 1..n |-> RawTask(TaskId(p, IF desc THEN n + 1 - i ELSE i), E)]]

RawPlan(count, desc, E) ==
    LET used == Ascending({p \in DOMAIN count : count[p] > 0})
    IN [phases |-> [k \in DOMAIN used |-> RawPhase(used[k], count[used[k]], desc, E)]]

\* Tasks per phase: phase 1 is there, and at most maxTasks tasks in all.
Layouts(nums, maxTasks) ==
    {c \in [nums -> 0..maxTasks] :
        /\ c[1] >= 1
        /\ SeqSum([k \in 1..Cardinality(nums) |-> c[Ascending(nums)[k]]]) <= maxTasks}

LayoutIds(c) == UNION {{TaskId(p, m) : m \in 1..c[p]} : p \in DOMAIN c}

\* orders: whether the tasks of a phase are declared by descending task number.
RawPlansOf(nums, maxTasks, maxEdges, orders) ==
    UNION {
        {RawPlan(c, desc, E) :
            desc \in orders,
            E \in SubsetsUpTo(LayoutIds(c) \X (LayoutIds(c) \cup {DanglingId}), maxEdges)}
        : c \in Layouts(nums, maxTasks)}

ResolverPlans == RawPlansOf(PhaseNums, MaxTasks, MaxEdges, BOOLEAN)
\* Plans for init and update: phases 1 and 2, tasks declared in ascending order,
\* no dependency references.  Neither operation reads the dependencies or the
\* digits of an id; the resolver is checked over ResolverPlans.
UpdatePlans == RawPlansOf({1, 2}, MaxUpdateTasks, 0, {FALSE})

(***************************************************************************)
(* Plans as the generator may answer them when it does not keep to the     *)
(* prompt: phases 1 and 2, and every task with any of three ids and at     *)
(* most one dependency among them.  The same id may come twice, a task may *)
(* depend on itself, and two tasks may depend on each other.               *)
(***************************************************************************)
CompileIds == {TaskId(1, 1), TaskId(1, 2), TaskId(2, 1)}

CompileTasks ==
    {[id |-> id, dependencies |-> deps] : id \in CompileIds, deps \in SubsetsUpTo(CompileIds, 1)}

\* All sequences of exactly n elements of S.
SeqsOf(S, n) == [1..n -> S]

\* The task lists of the phases numbered in `used`, c[p] tasks in phase p.
RECURSIVE TaskLists(_, _)
TaskLists(used, c) ==
    IF used = <<>> THEN {<<>>}
    ELSE {<<ts>> \o rest : ts \in SeqsOf(CompileTasks, c[Head(used)]),
                           rest \in TaskLists(Tail(used), c)}

CompilePlans ==
    UNION {
        LET used == Ascending({p \in DOMAIN c : c[p] > 0})
        IN {[phases |-> [k \in DOMAIN used |-> [number |-> used[k], tasks |-> tl[k]]]] :
               tl \in TaskLists(used, c)}
        : c \in Layouts({1, 2}, MaxCompileTasks)}

\* ------------------------------------------------------------------ parser and writer

\* src/src/parsers/prd.ts: ParseResponse -> ParsedPRD; every task starts pending.
parsePRD(raw) ==
    [phases |->
        [k \in DOMAIN raw.phases |->
            [number |-> raw.phases[k].number,
             tasks  |-> [i \in DOMAIN raw.phases[k].tasks |->
                            [id           |-> raw.phases[k].tasks[i].id,
                             phase        |-> raw.phases[k].number,
                             dependencies |-> raw.phases[k].tasks[i].dependencies,
                             status       |-> "pending"]]]],
     totalTasks |-> SeqSum([k \in DOMAIN raw.phases |-> Len(raw.phases[k].tasks)])]

\* All tasks of a ParsedPRD, phase by phase, in declaration order.
PlanTasks(prd) == Flatten([k \in DOMAIN prd.phases |-> prd.phases[k].tasks])

PlanIds(prd) == {t.id : t \in Range(PlanTasks(prd))}

(***************************************************************************)
(* phase-N.md as the writer lays it out (examples/sample-output): per task *)
(* a line  **ID:** `id`  followed by a line  **Dependencies:** None  or    *)
(* **Dependencies:** `id`, `id`.  A line is its tag, the id it shows and   *)
(* the backticked ids it shows.                                            *)
(***************************************************************************)
IdLine(id) == [tag |-> "ID", id |-> id, none |-> FALSE, ticks |-> {}]

DependenciesLine(deps) ==
    [tag |-> "Dependencies", id |-> <<>>, none |-> (deps = {}), ticks |-> deps]

generatePhaseFile(phase) ==
    Flatten([i \in DOMAIN phase.tasks |->
                <<IdLine(phase.tasks[i].id), DependenciesLine(phase.tasks[i].dependencies)>>])

\* An object used as an ordered map: assigning an existing key keeps its place.
PutTask(tasks, id, rec) ==
    IF \E i \in DOMAIN tasks : tasks[i].id = id
    THEN [i \in DOMAIN tasks |-> IF tasks[i].id = id THEN rec ELSE tasks[i]]
    ELSE Append(tasks, rec)

\* A progress record as first written: a status, no completedAt, no notes.
NewRecord(id, status) ==
    [id |-> id, status |-> status, completedAt |-> FALSE, notes |-> FALSE]

RECURSIVE StateTasks(_, _)
StateTasks(planTasks, acc) ==
    IF planTasks = <<>> THEN acc
    ELSE StateTasks(Tail(planTasks),
                    PutTask(acc, Head(planTasks).id,
                            NewRecord(Head(planTasks).id, Head(planTasks).status)))

\* state.json of a plan: one record per task id carrying the task's status.
generateInitialState(prd) ==
    [currentPhase |-> 1,
     tasks        |-> StateTasks(PlanTasks(prd), <<>>),
     checkpoints  |-> <<>>]

\* tasks.json without the dependency lists.
generateTasksJsonNoDeps(prd) ==
    LET tasks == Flatten([k \in DOMAIN prd.phases |->
                    [i \in DOMAIN prd.phases[k].tasks |->
                        [id           |-> prd.phases[k].tasks[i].id,
                         phase        |-> prd.phases[k].number,
                         dependencies |-> {},
                         status       |-> "pending"]]])
    IN [totalTasks |-> Len(tasks), tasks |-> tasks]

\* tasks.json: every task of every phase pushed in order, its status written
\* as 'pending' whatever the task carries; totalTasks is the array's length.
generateTasksJson(prd) ==
    LET tasks == Flatten([k \in DOMAIN prd.phases |->
                    [i \in DOMAIN prd.phases[k].tasks |->
                        [id           |-> prd.phases[k].tasks[i].id,
                         phase        |-> prd.phases[k].number,
                         dependencies |-> prd.phases[k].tasks[i].dependencies,
                         status       |-> "pending"]]])
    IN [totalTasks |-> Len(tasks), tasks |-> tasks]

\* ------------------------------------------------------------------ files

\* What a write that stopped half way leaves in a JSON file: text that does
\* not parse.
Torn == [torn |-> TRUE]

\* readJson: the parsed content, or null (<<>>) when the file is missing or
\* does not parse (the catch swallows the error).
readJson(file) == IF file = <<>> \/ file[1] = Torn THEN <<>> ELSE file

\* ------------------------------------------------------------------ get_next_task

\* taskRegex, applied repeatedly: the next **ID:** line, then (lazily) the
\* first **Dependencies:** line after it; a repeated id overwrites its entry.
RECURSIVE ScanTaskDependencies(_, _, _)
ScanTaskDependencies(lines, from, acc) ==
    LET idAt == {k \in from..Len(lines) : lines[k].tag = "ID"}
    IN IF idAt = {} THEN acc
       ELSE LET k == Min(idAt)
                depAt == {j \in (k + 1)..Len(lines) : lines[j].tag = "Dependencies"}
            IN IF depAt = {} THEN acc
               ELSE LET j == Min(depAt)
                        deps == IF lines[j].none THEN {} ELSE lines[j].ticks
                    IN ScanTaskDependencies(
                           lines, j + 1,
                           [x \in (DOMAIN acc) \cup {lines[k].id} |->
                               IF x = lines[k].id THEN deps ELSE acc[x]])

taskDependencies(phaseContent) == ScanTaskDependencies(phaseContent, 1, <<>>)

\* taskDependencies[taskId] || []
DepsOf(td, taskId) == IF taskId \in DOMAIN td THEN td[taskId] ELSE {}

HasRecord(state, id) == \E i \in DOMAIN state.tasks : state.tasks[i].id = id

StatusOf(state, id) ==
    state.tasks[CHOOSE i \in DOMAIN state.tasks : state.tasks[i].id = id].status

\* The prefix without its closing dash.
PhasePrefixNoDash(n) == <<"phase">> \o Digits(n)

\* `phase${state.currentPhase}-`
PhasePrefix(n) == <<"phase">> \o Digits(n) \o <<"-">>

\* No filter on the phase.
allPhaseTasks(state) == state.tasks

\* Object.entries(state.tasks).filter(([id]) => id.startsWith(...))
currentPhaseTasks(state) ==
    SelectSeq(state.tasks, LAMBDA e : StartsWith(e.id, PhasePrefix(state.currentPhase)))

\* A dependency with no record in state.json counted as satisfied.
DependencyCompletedOrMissing(state, depId) ==
    ~HasRecord(state, depId) \/ StatusOf(state, depId) = "completed"

\* A dependency looked up among the tasks of the current phase only.
DependencyCompletedInPhase(state, depId) ==
    /\ StartsWith(depId, PhasePrefix(state.currentPhase))
    /\ HasRecord(state, depId)
    /\ StatusOf(state, depId) = "completed"

\* depState && depState.status === 'completed'
DependencyCompleted(state, depId) ==
    HasRecord(state, depId) /\ StatusOf(state, depId) = "completed"

areDependenciesMet(state, td, taskId) ==
    \A depId \in DepsOf(td, taskId) : DependencyCompleted(state, depId)

\* The last such entry instead of the first.
LastPendingIndex(state, td, tasks) ==
    LET ok == {i \in DOMAIN tasks :
                  tasks[i].status = "pending" /\ areDependenciesMet(state, td, tasks[i].id)}
    IN IF ok = {} THEN 0 ELSE CHOOSE i \in ok : \A j \in ok : i >= j

\* The for loop: the first entry that is pending with its dependencies met
\* (0 when the loop ends without returning).
NextPendingIndex(state, td, tasks) ==
    LET ok == {i \in DOMAIN tasks :
                  tasks[i].status = "pending" /\ areDependenciesMet(state, td, tasks[i].id)}
    IN IF ok = {} THEN 0 ELSE Min(ok)

\* Every dependency listed, satisfied or not.
allDeps(state, td, id) == DepsOf(td, id)

\* deps.filter(d => state.tasks[d]?.status !== 'completed')
unmetDeps(state, td, id) ==
    {d \in DepsOf(td, id) : ~(HasRecord(state, d) /\ StatusOf(state, d) = "completed")}

blockedTasks(state, td, pendingTasks) ==
    LET waiting == SelectSeq(pendingTasks, LAMBDA e : ~areDependenciesMet(state, td, e.id))
    IN [i \in DOMAIN waiting |->
           [taskId |-> waiting[i].id, unmetDependencies |-> unmetDeps(state, td, waiting[i].id)]]

\* The answer once state.json and the phase file are read.
ResolveNext(state, phaseContent) ==
    LET td == taskDependencies(phaseContent)
        tasks == currentPhaseTasks(state)
        n == NextPendingIndex(state, td, tasks)
        allDone == \A i \in DOMAIN tasks : tasks[i].status = "completed"
        pendingTasks == SelectSeq(tasks, LAMBDA e : e.status = "pending")
        inProgressTasks == SelectSeq(tasks, LAMBDA e : e.status = "in_progress")
    IN IF n # 0
       THEN [kind |-> "next", taskId |-> tasks[n].id, dependencies |-> DepsOf(td, tasks[n].id)]
       ELSE IF allDone
       THEN [kind |-> "phaseComplete", phase |-> state.currentPhase]
       ELSE IF Len(pendingTasks) > 0 /\ Len(inProgressTasks) > 0
       THEN [kind       |-> "blocked",
             inProgress |-> [i \in DOMAIN inProgressTasks |-> inProgressTasks[i].id],
             blocked    |-> blockedTasks(state, td, pendingTasks)]
       ELSE [kind |-> "noPending"]

\* The whole handler: state.json absent, phase file absent, or the answer.
get_next_task(sf, files) ==
    IF sf = <<>> THEN [kind |-> "noState"]
    ELSE IF sf[1].currentPhase \notin DOMAIN files
    THEN [kind |-> "phaseFileNotFound", phase |-> sf[1].currentPhase]
    ELSE ResolveNext(sf[1], files[sf[1].currentPhase])

\* ------------------------------------------------------------------ state

VARIABLES
    prdFile,     \* <<>> or <<the ParsedPRD that PRD.md was last written from>>
    phaseFiles,  \* phase number -> content of phases/phase-N.md, for the files that exist
    stateFile,   \* <<>>, <<Torn>> or <<content of docs/progress/state.json>>
    tasksFile,   \* <<>>, <<Torn>> or <<content of docs/progress/tasks.json>>
    op,          \* the operation that ran last ("requery": get_next_task twice in a row)
    result,      \* <<>> or <<what the call that ran last was given or answered>>
    prev,        \* after init or update: what readJson gave for state.json when it started
    lastRun,     \* after init or update: the step that threw, what the research call did
    configFile,  \* <<>> or <<content of ~/.vibe-assistant/config.json>>
    env,         \* process.env: ANTHROPIC_API_KEY and PERPLEXITY_API_KEY ("": not set)
    rawPrdFile,  \* <<>> or <<the PRD text in raw-prd.md>>
    writing,     \* <<>> or <<what a writePRDFiles under way has still to write>>
    sessions     \* agent session -> what it read from state.json and the task it picked

vars == <<prdFile, phaseFiles, stateFile, tasksFile, op, result, prev, lastRun,
          configFile, env, rawPrdFile, writing, sessions>>

\* What init, update, get_next_task and a single agent's edits leave alone.
outside == <<configFile, env, rawPrdFile, writing, sessions>>

\* What the configuration commands leave alone.
project == <<prdFile, phaseFiles, stateFile, tasksFile, rawPrdFile, writing, sessions>>

\* ------------------------------------------------------------------ runs of init and update

\* The steps of init and update that can throw, in the order they run: the
\* research call, the generation and parse of the plan, then the writes of
\* writePRDFiles (PRD.md, the phase files, state.json, tasks.json, and the
\* files written after it).
Steps == <<"research", "parse", "prd", "phases", "state", "tasks", "rest">>

StepIndex(step) == CHOOSE i \in DOMAIN Steps : Steps[i] = step

Researches == {"skipped", "ok", "failed"}

\* What happens to a run: the step that throws ("none": no step does); for a
\* throw in the phase-file loop, the number of phase files written before it;
\* for a throw while a JSON file is written, whether the file is left torn;
\* and what the research call does ("skipped": no Perplexity key configured).
Run(fault, written, torn, research) ==
    [fault |-> fault, written |-> written, torn |-> torn, research |-> research]

\* No step throws, no Perplexity key.
CleanRuns == {Run("none", 0, FALSE, "skipped")}

\* Any step from the parse on may throw, and the research call may fail.  The
\* research call is varied for the runs whose writes all succeed and for those
\* whose parse throws: its results only enter the prompt of the parse.
FaultyRuns ==
    {Run(fault, 0, FALSE, research) : fault \in {"none", "parse"}, research \in Researches}
    \cup {Run(fault, 0, FALSE, "skipped") : fault \in {"prd", "rest"}}
    \cup {Run("phases", written, FALSE, "skipped") : written \in 0..(MaxUpdateTasks - 1)}
    \cup {Run(fault, 0, torn, "skipped") : fault \in {"state", "tasks"}, torn \in BOOLEAN}

\* A throw in the phase-file loop comes before the last phase file is written.
RunFits(run, prd) == run.written < Len(prd.phases)

\* The step completed in this run.
Done(run, step) == run.fault = "none" \/ StepIndex(step) < StepIndex(run.fault)

NoRun == [fault |-> "none", research |-> "skipped"]

\* No API key in the environment.
NoEnv == [ANTHROPIC_API_KEY |-> "", PERPLEXITY_API_KEY |-> ""]

\* The agent sessions working on the project.
Sessions == {"a", "b"}

\* A session that has read nothing yet.  snapshot: what it read from
\* state.json for the task it is about to mark; pick: that task; picked: every
\* task it picked so far; overlapped: it read while another session was
\* between its read and its write.
Idle == [snapshot |-> <<>>, pick |-> <<>>, picked |-> {}, overlapped |-> FALSE]

\* No create_prd yet, no write under way, no session at work.
Quiet ==
    /\ rawPrdFile = <<>>
    /\ writing = <<>>
    /\ sessions = [s \in Sessions |-> Idle]

\* ------------------------------------------------------------------ operations

\* The phase-file loop of writePRDFiles: one file per phase of the plan, files
\* of other phase numbers are left as they are.
WrittenPhaseFiles(files, prd) ==
    LET nums == {prd.phases[k].number : k \in DOMAIN prd.phases}
        last(n) == prd.phases[CHOOSE k \in DOMAIN prd.phases :
                       /\ prd.phases[k].number = n
                       /\ \A j \in DOMAIN prd.phases : prd.phases[j].number = n => j <= k]
    IN [n \in (DOMAIN files) \cup nums |->
           IF n \in nums THEN generatePhaseFile(last(n)) ELSE files[n]]

\* writeJson: the new content once the write completed; a write that threw
\* leaves the file as it was or torn (fs.writeJson writes in place).
WrittenJson(file, content, run, step) ==
    IF Done(run, step) THEN <<content>>
    ELSE IF run.fault = step /\ run.torn THEN <<Torn>>
    ELSE file

\* The writes in order; the one that throws ends them.
writePRDFiles(prd, run) ==
    /\ prdFile' = IF Done(run, "prd") THEN <<prd>> ELSE prdFile
    /\ phaseFiles' =
           IF Done(run, "phases") THEN WrittenPhaseFiles(phaseFiles, prd)
           ELSE IF run.fault = "phases"
           THEN WrittenPhaseFiles(phaseFiles,
                                  [prd EXCEPT !.phases = SubSeq(prd.phases, 1, run.written)])
           ELSE phaseFiles
    /\ stateFile' = WrittenJson(stateFile, generateInitialState(prd), run, "state")
    /\ tasksFile' = WrittenJson(tasksFile, generateTasksJson(prd), run, "tasks")

\* A failed research call ends the run.
researchRethrown(run) ==
    IF run.research = "failed" THEN [run EXCEPT !.fault = "research"] ELSE run

\* The research step: made only with a Perplexity key; the catch around it
\* lets the run go on without research results.
researchStep(run) == run

\* State kept from the existing state.json, as update does.
initCommandPreserving(plans, runs) ==
    \E raw \in plans, run \in runs :
        LET r == researchStep(run)
            old == readJson(stateFile)
            prd == parsePRD(raw)
            kept == [prd EXCEPT !.phases =
                        [k \in DOMAIN prd.phases |->
                            [prd.phases[k] EXCEPT !.tasks =
                                [i \in DOMAIN prd.phases[k].tasks |->
                                    LET task == prd.phases[k].tasks[i]
                                    IN IF old # <<>> /\ HasRecord(old[1], task.id)
                                       THEN [task EXCEPT !.status = StatusOf(old[1], task.id)]
                                       ELSE task]]]]
        IN /\ RunFits(run, prd)
           /\ writePRDFiles(kept, r)
           /\ op' = IF r.fault = "none" THEN "init" ELSE "initFailed"
           /\ result' = <<>>
           /\ prev' = old
           /\ lastRun' = [fault |-> r.fault, research |-> r.research]
           /\ UNCHANGED outside

\* init and the parse_prd tool: research, parse, then write everything afresh;
\* whatever throws after the research step is reported and ends the run.
initCommand(plans, runs) ==
    \E raw \in plans, run \in runs :
        LET r == researchStep(run)
        IN /\ RunFits(run, parsePRD(raw))
           /\ writePRDFiles(parsePRD(raw), r)
           /\ op' = IF r.fault = "none" THEN "init" ELSE "initFailed"
           /\ result' = <<>>
           /\ prev' = readJson(stateFile)
           /\ lastRun' = [fault |-> r.fault, research |-> r.research]
           /\ UNCHANGED outside

\* Nothing carried over.
PreserveNothing(prd, existingState) == prd

\* Statuses carried over by position in state.json instead of by task id.
PreserveByPosition(prd, existingState) ==
    [prd EXCEPT !.phases =
        [k \in DOMAIN prd.phases |->
            [prd.phases[k] EXCEPT !.tasks =
                [i \in DOMAIN prd.phases[k].tasks |->
                    LET task == prd.phases[k].tasks[i]
                        pos == SeqSum([j \in 1..(k - 1) |-> Len(prd.phases[j].tasks)]) + i
                    IN IF existingState # <<>> /\ pos <= Len(existingState[1].tasks)
                       THEN [task EXCEPT !.status = existingState[1].tasks[pos].status]
                       ELSE task]]]]

\* handleReparse, the loop over the new plan: a task whose id has a record in
\* the existing state takes that record's status.
PreserveStatus(prd, existingState) ==
    [prd EXCEPT !.phases =
        [k \in DOMAIN prd.phases |->
            [prd.phases[k] EXCEPT !.tasks =
                [i \in DOMAIN prd.phases[k].tasks |->
                    LET task == prd.phases[k].tasks[i]
                    IN IF existingState # <<>> /\ HasRecord(existingState[1], task.id)
                       THEN [task EXCEPT !.status = StatusOf(existingState[1], task.id)]
                       ELSE task]]]]

\* update, choice "Re-parse PRD": needs PRD.md; state.json may be missing or
\* unreadable.  No research step; what throws is caught and printed.
handleReparse(plans, runs) ==
    /\ prdFile # <<>>
    /\ \E raw \in plans, run \in runs :
        /\ run.research = "skipped"
        /\ RunFits(run, parsePRD(raw))
        /\ writePRDFiles(PreserveStatus(parsePRD(raw), readJson(stateFile)), run)
        /\ op' = IF run.fault = "none" THEN "reparse" ELSE "reparseFailed"
        /\ result' = <<>>
        /\ prev' = readJson(stateFile)
        /\ lastRun' = [fault |-> run.fault, research |-> run.research]
        /\ UNCHANGED outside

\* The record of a task id in a state.
RecordOf(state, id) ==
    state.tasks[CHOOSE i \in DOMAIN state.tasks : state.tasks[i].id = id]

\* The state with the record of one task id replaced.
WithRecord(state, id, rec) ==
    [state EXCEPT !.tasks =
        [i \in DOMAIN state.tasks |-> IF state.tasks[i].id = id THEN rec ELSE state.tasks[i]]]

\* The agent, following /next-task and the session-end steps, rewrites one
\* task's status in state.json, with a completedAt timestamp exactly when the
\* status written is completed; nothing in the tool checks the move.
SetStatus(id, status) ==
    /\ readJson(stateFile) # <<>>
    /\ HasRecord(stateFile[1], id)
    /\ StatusOf(stateFile[1], id) # status
    /\ stateFile' = <<WithRecord(stateFile[1], id,
                          [RecordOf(stateFile[1], id) EXCEPT
                              !.status = status,
                              !.completedAt = (status = "completed")])>>
    /\ op' = "edit"
    /\ result' = <<>>
    /\ prev' = <<>>
    /\ lastRun' = NoRun
    /\ UNCHANGED <<prdFile, phaseFiles, tasksFile, outside>>

\* The agent moves currentPhase in state.json; nothing in the tool checks it.
SetCurrentPhase(n) ==
    /\ readJson(stateFile) # <<>>
    /\ stateFile[1].currentPhase # n
    /\ stateFile' = <<[stateFile[1] EXCEPT !.currentPhase = n]>>
    /\ op' = "edit"
    /\ result' = <<>>
    /\ prev' = <<>>
    /\ lastRun' = NoRun
    /\ UNCHANGED <<prdFile, phaseFiles, tasksFile, outside>>

\* /checkpoint: the agent marks a task completed with a timestamp, may leave a
\* note on it, and adds an entry for it to the checkpoints array.
Checkpoint(id, note) ==
    /\ readJson(stateFile) # <<>>
    /\ HasRecord(stateFile[1], id)
    /\ Len(stateFile[1].checkpoints) < MaxCheckpoints
    /\ stateFile' =
           <<[WithRecord(stateFile[1], id,
                  [RecordOf(stateFile[1], id) EXCEPT
                      !.status = "completed",
                      !.completedAt = TRUE,
                      !.notes = (@ \/ note)])
              EXCEPT !.checkpoints =
                  Append(@, [phase |-> stateFile[1].currentPhase, task |-> id])]>>
    /\ op' = "checkpoint"
    /\ result' = <<>>
    /\ prev' = <<>>
    /\ lastRun' = NoRun
    /\ UNCHANGED <<prdFile, phaseFiles, tasksFile, outside>>

\* The answer as above, and the returned task marked in_progress in state.json
\* (what the /next-task command tells the agent to do).
GetNextTaskMarking ==
    LET r == get_next_task(readJson(stateFile), phaseFiles)
    IN /\ result' = <<r>>
       /\ op' = IF op \in {"query", "requery"} THEN "requery" ELSE "query"
       /\ prev' = <<>>
       /\ lastRun' = NoRun
       /\ stateFile' =
              IF r.kind = "next"
              THEN <<[stateFile[1] EXCEPT !.tasks =
                        [i \in DOMAIN stateFile[1].tasks |->
                            IF stateFile[1].tasks[i].id = r.taskId
                            THEN [stateFile[1].tasks[i] EXCEPT !.status = "in_progress"]
                            ELSE stateFile[1].tasks[i]]]>>
              ELSE stateFile
       /\ UNCHANGED <<prdFile, phaseFiles, tasksFile, outside>>

\* The get_next_task tool: reads state.json and the phase file, answers.
GetNextTask ==
    /\ result' = <<get_next_task(readJson(stateFile), phaseFiles)>>
    /\ op' = IF op \in {"query", "requery"} THEN "requery" ELSE "query"
    /\ prev' = <<>>
    /\ lastRun' = NoRun
    /\ UNCHANGED <<prdFile, phaseFiles, stateFile, tasksFile, outside>>

EditStatus ==
    \E id \in {TaskId(p, m) : p \in PhaseNums, m \in 1..MaxTasks}, status \in Statuses :
        SetStatus(id, status)

EditPhase == \E n \in PhaseNums : SetCurrentPhase(n)

EditCheckpoint ==
    \E id \in {TaskId(p, m) : p \in PhaseNums, m \in 1..MaxTasks}, note \in BOOLEAN :
        Checkpoint(id, note)

\* ------------------------------------------------------------------ configuration

\* A UserConfig is an object with some of these fields.  A field holding
\* undefined is a field left out: writeJson drops it, and the code only tests
\* such a field for truthiness.  outputDir and claudeModel are left out.
ConfigFields == {"anthropicApiKey", "perplexityApiKey", "researchProvider", "defaultAgent"}

KeyFields == {"anthropicApiKey", "perplexityApiKey"}

ApiKeys == {"key-a", "key-b"}

FieldValues(field) ==
    CASE field \in KeyFields -> ApiKeys
      [] field = "researchProvider" -> {"perplexity", "claude"}
      [] field = "defaultAgent" -> {"claude-code", "codex"}

\* Every object with some of the fields F.
RECURSIVE ObjectsOver(_)
ObjectsOver(F) ==
    IF F = {} THEN {<<>>}
    ELSE LET f == CHOOSE x \in F : TRUE
             rest == ObjectsOver(F \ {f})
         IN rest \cup {[g \in DOMAIN o \cup {f} |-> IF g = f THEN v ELSE o[g]] :
                          o \in rest, v \in FieldValues(f)}

Configs == ObjectsOver(ConfigFields)

Envs == [ANTHROPIC_API_KEY : ApiKeys \cup {""}, PERPLEXITY_API_KEY : ApiKeys \cup {""}]

\* !config.field
Truthy(config, field) == field \in DOMAIN config /\ config[field] # ""

\* { ...a, ...b }
Spread(a, b) == [f \in DOMAIN a \cup DOMAIN b |-> IF f \in DOMAIN b THEN b[f] ELSE a[f]]

\* delete config.field
Delete(config, field) == [f \in DOMAIN config \ {field} |-> config[f]]

DEFAULT_CONFIG == [researchProvider |-> "perplexity", defaultAgent |-> "claude-code"]

\* The file's fields over the defaults, and each API key from the environment
\* when set there, from the file otherwise.
loadConfig(file, e) ==
    LET fileConfig == IF file = <<>> THEN <<>> ELSE file[1]
        base == Spread(DEFAULT_CONFIG, fileConfig)
        withKey(config, field, name) ==
            IF e[name] # "" THEN Spread(config, [f \in {field} |-> e[name]])
            ELSE IF Truthy(fileConfig, field) THEN config
            ELSE Delete(config, field)
    IN withKey(withKey(base, "anthropicApiKey", "ANTHROPIC_API_KEY"),
               "perplexityApiKey", "PERPLEXITY_API_KEY")

\* The object saveConfig writes: the loaded configuration with the passed
\* fields over it, less each API key equal to the one in the environment.
configToSave(file, e, config) ==
    LET newConfig == Spread(loadConfig(file, e), config)
        less(c, field, name) ==
            IF e[name] # "" /\ field \in DOMAIN c /\ c[field] = e[name]
            THEN Delete(c, field) ELSE c
    IN less(less(newConfig, "anthropicApiKey", "ANTHROPIC_API_KEY"),
            "perplexityApiKey", "PERPLEXITY_API_KEY")

\* Error messages, by the words the callers and tests look for.
AnthropicRequired == <<"Anthropic API key", "is required">>
PerplexityRequired == <<"Perplexity", "API key is required for research">>

validateConfig(config) ==
    LET errors ==
            (IF ~Truthy(config, "anthropicApiKey") THEN <<AnthropicRequired>> ELSE <<>>)
            \o (IF /\ "researchProvider" \in DOMAIN config
                   /\ config.researchProvider = "perplexity"
                   /\ ~Truthy(config, "perplexityApiKey")
                THEN <<PerplexityRequired>> ELSE <<>>)
    IN [valid |-> Len(errors) = 0, errors |-> errors]

\* saveConfig(config)
SaveConfig ==
    \E config \in Configs :
        /\ configFile' = <<configToSave(configFile, env, config)>>
        /\ op' = "saveConfig"
        /\ result' = <<[saved |-> config]>>
        /\ prev' = <<>>
        /\ lastRun' = NoRun
        /\ UNCHANGED <<project, env>>

\* The start of every command: loadConfig, then validateConfig on what it gave.
ValidateConfig ==
    LET config == loadConfig(configFile, env)
    IN /\ result' = <<[config |-> config, validation |-> validateConfig(config)]>>
       /\ op' = "validateConfig"
       /\ prev' = <<>>
       /\ lastRun' = NoRun
       /\ UNCHANGED <<project, configFile, env>>

\* ------------------------------------------------------------------ create_prd

\* PRD texts the model may return.
PrdTexts == {"prd-a", "prd-b"}

\* The reply to the format prompt, parsed: tasks as the prompt lays them out
\* (status pending), totalTasks recomputed.
formatWithRPGTemplate(raw) == parsePRD(raw)

\* Every call writes the files.
finalizesAlways(interactive) == TRUE

\* `if (interactive) return` comes before the first write, in the refinement
\* branch and in the generation branch alike.
finalizes(interactive) == ~interactive

\* The create_prd tool.  refine: feedback and current_prd were both passed.
create_prd(plans) ==
    \E interactive \in BOOLEAN, refine \in BOOLEAN :
        LET config == loadConfig(configFile, env)
            call == [interactive |-> interactive, refine |-> refine]
        IN /\ op' = "create_prd"
           /\ prev' = <<>>
           /\ lastRun' = NoRun
           /\ UNCHANGED <<configFile, env, writing, sessions>>
           /\ IF ~validateConfig(config).valid
              THEN /\ result' = <<[call |-> call, isError |-> TRUE]>>
                   /\ UNCHANGED <<rawPrdFile, prdFile, phaseFiles, stateFile, tasksFile>>
              ELSE \E text \in PrdTexts, research \in Researches :
                      /\ research # "skipped" <=>
                             (~refine /\ Truthy(config, "perplexityApiKey"))
                      /\ result' = <<[call |-> call, isError |-> FALSE, text |-> text]>>
                      /\ IF finalizes(interactive)
                         THEN \E raw \in plans :
                                 /\ rawPrdFile' = <<text>>
                                 /\ writePRDFiles(formatWithRPGTemplate(raw),
                                                  Run("none", 0, FALSE, research))
                         ELSE UNCHANGED <<rawPrdFile, prdFile, phaseFiles,
                                          stateFile, tasksFile>>

\* ------------------------------------------------------------------ init.sh

\* A TechStackInfo; an optional field that is absent is "" (hasDocker: FALSE).
Languages == {"javascript", "typescript", "python", "go", "rust", "ruby", "java", "other"}

PackageManagers == {"", "npm", "yarn", "pnpm", "pip", "poetry", "pipenv", "maven", "gradle"}

Frameworks == {"", "Django", "django", "fastapi", "flask", "rails", "express"}

DevCommands == {"", "custom-dev"}

TechStacks ==
    [language : Languages, packageManager : PackageManagers, framework : Frameworks,
     hasDocker : BOOLEAN, devCommand : DevCommands]

\* String.prototype.toLowerCase, on the framework names above.
toLowerCase(name) == IF name = "Django" THEN "django" ELSE name

\* a || b on strings
Or(a, b) == IF a # "" THEN a ELSE b

\* The startDev section of a script: the lines that start something, each a
\* sequence of words, the dev command one word.
getNodeCommands(pm, tech) ==
    LET packageManager == Or(pm, "npm")
        runCmd == IF packageManager = "yarn" THEN <<"yarn">> ELSE <<packageManager, "run">>
        devCmd == IF tech # <<>> /\ tech[1].devCommand # ""
                  THEN <<tech[1].devCommand>> ELSE runCmd \o <<"dev">>
    IN [startDev |-> <<devCmd \o <<"&">>>>]

getPythonCommands(tech) ==
    LET framework == toLowerCase(tech.framework)
        devCmd == IF framework = "django" THEN "python manage.py runserver"
                  ELSE IF framework = "fastapi" THEN "uvicorn main:app --reload"
                  ELSE IF framework = "flask" THEN "flask run --reload"
                  ELSE Or(tech.devCommand, "python main.py")
    IN [startDev |-> <<<<devCmd, "&">>>>]

getGoCommands(tech) ==
    [startDev |-> <<<<"air", "&">>, <<Or(tech.devCommand, "go run ."), "&">>>>]

getRustCommands(tech) ==
    [startDev |-> <<<<"cargo watch -x run", "&">>, <<Or(tech.devCommand, "cargo run"), "&">>>>]

getRubyCommands(tech) ==
    LET framework == toLowerCase(tech.framework)
        isRails == framework = "rails" \/ framework = "ruby on rails"
    IN [startDev |->
           <<<<Or(tech.devCommand, IF isRails THEN "rails server" ELSE "ruby app.rb"), "&">>>>]

getJavaCommands(tech) ==
    LET pm == tech.packageManager
        isMaven == pm = "maven" \/ pm = ""
        runCmd == IF isMaven THEN "./mvnw spring-boot:run" ELSE "./gradlew bootRun"
    IN [startDev |-> <<<<Or(tech.devCommand, runCmd), "&">>>>]

getDockerCommands(tech) ==
    [startDev |-> <<<<Or(tech.devCommand, "docker-compose up"), "-d">>>>]

getGenericCommands(tech) ==
    [startDev |-> <<<<Or(tech.devCommand, "echo No dev command configured"), "&">>>>]

\* tech: <<>> (the plan has no techStack) or <<a TechStackInfo>>.
getTechStackCommands(tech) ==
    IF tech = <<>> THEN getNodeCommands("npm", <<>>)
    ELSE IF tech[1].hasDocker THEN getDockerCommands(tech[1])
    ELSE CASE tech[1].language \in {"javascript", "typescript"} ->
                  getNodeCommands(tech[1].packageManager, tech)
           [] tech[1].language = "python" -> getPythonCommands(tech[1])
           [] tech[1].language = "go" -> getGoCommands(tech[1])
           [] tech[1].language = "rust" -> getRustCommands(tech[1])
           [] tech[1].language = "ruby" -> getRubyCommands(tech[1])
           [] tech[1].language = "java" -> getJavaCommands(tech[1])
           [] OTHER -> getGenericCommands(tech[1])

\* init.sh, by its startDev section.
generateInitScript(tech) == [startDev |-> getTechStackCommands(tech).startDev]

\* String.prototype.includes on a script, for a command that is one word.
ScriptContains(script, cmd) ==
    \E i \in DOMAIN script.startDev : cmd \in Range(script.startDev[i])

\* generateInitScript(prd) for a plan with any tech stack or none.
GenerateInitScript ==
    \E tech \in {<<>>} \cup {<<t>> : t \in TechStacks} :
        /\ result' = <<[tech |-> tech, script |-> generateInitScript(tech)]>>
        /\ op' = "generateInitScript"
        /\ prev' = <<>>
        /\ lastRun' = NoRun
        /\ UNCHANGED <<project, configFile, env>>

\* ------------------------------------------------------------------ a write under way

\* update, choice "Re-parse PRD", up to the point where writeJson has opened
\* state.json for writing: PRD.md and the phase files are written, state.json
\* is truncated and its new content not yet complete.
BeginReparse(plans) ==
    /\ prdFile # <<>>
    /\ writing = <<>>
    /\ \E raw \in plans :
        LET prd == PreserveStatus(parsePRD(raw), readJson(stateFile))
        IN /\ prdFile' = <<prd>>
           /\ phaseFiles' = WrittenPhaseFiles(phaseFiles, prd)
           /\ stateFile' = <<Torn>>
           /\ writing' = <<[state |-> generateInitialState(prd),
                            tasks |-> generateTasksJson(prd),
                            old |-> readJson(stateFile)]>>
    /\ op' = "writing"
    /\ result' = <<>>
    /\ prev' = readJson(stateFile)
    /\ lastRun' = NoRun
    /\ UNCHANGED <<tasksFile, configFile, env, rawPrdFile, sessions>>

\* The rest of that run: the write of state.json completes, tasks.json is
\* written.
EndReparse ==
    /\ writing # <<>>
    /\ stateFile' = <<writing[1].state>>
    /\ tasksFile' = <<writing[1].tasks>>
    /\ writing' = <<>>
    /\ op' = "reparse"
    /\ result' = <<>>
    /\ prev' = writing[1].old
    /\ lastRun' = NoRun
    /\ UNCHANGED <<prdFile, phaseFiles, configFile, env, rawPrdFile, sessions>>

\* init, when no write is under way.
InitAlone ==
    /\ writing = <<>>
    /\ initCommand(UpdatePlans, CleanRuns)

\* The agent's status edits, when no write is under way.
EditAlone ==
    /\ writing = <<>>
    /\ EditStatus

\* ------------------------------------------------------------------ the agent loop

\* The loop of the generated instructions, one agent: ask for the next task,
\* complete the task returned, move to the next phase when the current one is
\* reported complete.
AgentAsk ==
    /\ op \notin {"query", "requery"}
    /\ GetNextTask

AgentComplete ==
    /\ op \in {"query", "requery"}
    /\ result[1].kind = "next"
    /\ SetStatus(result[1].taskId, "completed")

AgentAdvance ==
    /\ op \in {"query", "requery"}
    /\ result[1].kind = "phaseComplete"
    /\ SetCurrentPhase(stateFile[1].currentPhase + 1)

\* ------------------------------------------------------------------ parallel sessions

\* The status is left as it was.
MarkNothing(state, id) == state

\* /next-task, step 4: the task's status becomes in_progress.
MarkInProgress(state, id) ==
    WithRecord(state, id, [RecordOf(state, id) EXCEPT !.status = "in_progress"])

\* /next-task, steps 1-3, in one session: read state.json and the phase file,
\* find the first pending task whose dependencies are completed.
SessionRead(s) ==
    /\ sessions[s].pick = <<>>
    /\ LET sf == readJson(stateFile)
           r == get_next_task(sf, phaseFiles)
       IN /\ result' = <<r>>
          /\ sessions' =
                 [sessions EXCEPT ![s] =
                     IF r.kind = "next"
                     THEN [snapshot |-> sf,
                           pick |-> <<r.taskId>>,
                           picked |-> @.picked \cup {r.taskId},
                           overlapped |->
                               \/ @.overlapped
                               \/ \E o \in Sessions \ {s} : sessions[o].pick # <<>>]
                     ELSE @]
    /\ op' = "sessionRead"
    /\ prev' = <<>>
    /\ lastRun' = NoRun
    /\ UNCHANGED <<prdFile, phaseFiles, stateFile, tasksFile,
                   configFile, env, rawPrdFile, writing>>

\* /next-task, step 4, in one session: state.json is written with the picked
\* task in_progress, either the whole file from what the session read or the
\* one status changed in the file as it is now.
SessionWrite(s) ==
    /\ sessions[s].pick # <<>>
    /\ readJson(stateFile) # <<>>
    /\ \E whole \in BOOLEAN :
        LET base == IF whole THEN sessions[s].snapshot[1] ELSE stateFile[1]
        IN stateFile' = <<MarkInProgress(base, sessions[s].pick[1])>>
    /\ sessions' = [sessions EXCEPT ![s].pick = <<>>, ![s].snapshot = <<>>]
    /\ op' = "sessionWrite"
    /\ result' = <<>>
    /\ prev' = <<>>
    /\ lastRun' = NoRun
    /\ UNCHANGED <<prdFile, phaseFiles, tasksFile, configFile, env, rawPrdFile, writing>>

\* ------------------------------------------------------------------ specifications

\* The whole tool, from an empty project directory, with no step throwing.
Init ==
    /\ prdFile = <<>>
    /\ phaseFiles = <<>>
    /\ stateFile = <<>>
    /\ tasksFile = <<>>
    /\ op = "none"
    /\ result = <<>>
    /\ prev = <<>>
    /\ lastRun = NoRun
    /\ configFile = <<>>
    /\ env = NoEnv
    /\ Quiet

Next ==
    \/ initCommand(UpdatePlans, CleanRuns)
    \/ handleReparse(UpdatePlans, CleanRuns)
    \/ EditStatus
    \/ EditPhase
    \/ GetNextTask

Spec == Init /\ [][Next]_vars

\* The progress state under init, update and every edit the agent makes to
\* state.json, checkpoints included.
NextStore ==
    \/ initCommand(UpdatePlans, CleanRuns)
    \/ handleReparse(UpdatePlans, CleanRuns)
    \/ EditStatus
    \/ EditPhase
    \/ EditCheckpoint

SpecStore == Init /\ [][NextStore]_vars

\* The resolver over a project that init has just written from any plan.
InitResolver ==
    \E raw \in ResolverPlans :
        /\ prdFile = <<parsePRD(raw)>>
        /\ phaseFiles = WrittenPhaseFiles(<<>>, parsePRD(raw))
        /\ stateFile = <<generateInitialState(parsePRD(raw))>>
        /\ tasksFile = <<generateTasksJson(parsePRD(raw))>>
        /\ op = "init"
        /\ result = <<>>
        /\ prev = <<>>
        /\ lastRun = NoRun
        /\ configFile = <<>>
        /\ env = NoEnv
        /\ Quiet

NextResolver ==
    \/ EditStatus
    \/ EditPhase
    \/ GetNextTask

SpecResolver == InitResolver /\ [][NextResolver]_vars

\* init and update with any step throwing, and get_next_task reading what
\* they leave behind.
NextFaulty ==
    \/ initCommand(UpdatePlans, FaultyRuns)
    \/ handleReparse(UpdatePlans, FaultyRuns)
    \/ GetNextTask

SpecFaulty == Init /\ [][NextFaulty]_vars

\* The first init of an empty project directory, from any generated plan.
FirstInit ==
    /\ prdFile = <<>>
    /\ initCommand(CompilePlans, CleanRuns)

SpecCompile == Init /\ [][FirstInit]_vars

\* The configuration commands, from any config file and environment.
InitConfig ==
    /\ prdFile = <<>>
    /\ phaseFiles = <<>>
    /\ stateFile = <<>>
    /\ tasksFile = <<>>
    /\ op = "none"
    /\ result = <<>>
    /\ prev = <<>>
    /\ lastRun = NoRun
    /\ configFile \in {<<>>} \cup {<<c>> : c \in Configs}
    /\ env \in Envs
    /\ Quiet

NextConfig ==
    \/ SaveConfig
    \/ ValidateConfig

SpecConfig == InitConfig /\ [][NextConfig]_vars

\* create_prd under any environment, with the agent editing statuses between
\* the calls.
InitCreate ==
    /\ prdFile = <<>>
    /\ phaseFiles = <<>>
    /\ stateFile = <<>>
    /\ tasksFile = <<>>
    /\ op = "none"
    /\ result = <<>>
    /\ prev = <<>>
    /\ lastRun = NoRun
    /\ configFile \in {<<>>, <<[researchProvider |-> "claude"]>>}
    /\ env \in Envs
    /\ Quiet

NextCreate ==
    \/ create_prd(UpdatePlans)
    \/ EditStatus

SpecCreate == InitCreate /\ [][NextCreate]_vars

\* The init.sh generator on its own.
SpecInitScript == Init /\ [][GenerateInitScript]_vars

\* One writer at a time (init, updates, the agent's edits) and the MCP server
\* answering get_next_task at any moment, also while a write is under way.
NextConcurrent ==
    \/ InitAlone
    \/ BeginReparse(UpdatePlans)
    \/ EndReparse
    \/ EditAlone
    \/ GetNextTask

SpecConcurrent == Init /\ [][NextConcurrent]_vars

\* The plans of the resolver, tasks declared in ascending order.
AgentPlans == RawPlansOf(PhaseNums, MaxTasks, MaxEdges, {FALSE})

\* One agent working through a project that init has just written from any
\* plan; the agent keeps going as long as it has a step to take.
InitAgent ==
    \E raw \in AgentPlans :
        /\ prdFile = <<parsePRD(raw)>>
        /\ phaseFiles = WrittenPhaseFiles(<<>>, parsePRD(raw))
        /\ stateFile = <<generateInitialState(parsePRD(raw))>>
        /\ tasksFile = <<generateTasksJson(parsePRD(raw))>>
        /\ op = "init"
        /\ result = <<>>
        /\ prev = <<>>
        /\ lastRun = NoRun
        /\ configFile = <<>>
        /\ env = NoEnv
        /\ Quiet

NextAgent ==
    \/ AgentAsk
    \/ AgentComplete
    \/ AgentAdvance

SpecAgent == InitAgent /\ [][NextAgent]_vars /\ WF_vars(NextAgent)

\* Two agent sessions on a project that init has just written, their reads
\* and writes of state.json in any order.
NextSessions ==
    \/ \E s \in Sessions : SessionRead(s)
    \/ \E s \in Sessions : SessionWrite(s)

SpecSessions == InitAgent /\ [][NextSessions]_vars

\* ------------------------------------------------------------------ the plan, as written

Answered == result # <<>> /\ stateFile # <<>>

Plan == prdFile[1]

State == stateFile[1]

PlanTask(id) == CHOOSE t \in Range(PlanTasks(Plan)) : t.id = id

\* The tasks the plan declares in phase n, in declaration order.
PlanPhaseTasks(n) == SelectSeq(PlanTasks(Plan), LAMBDA t : t.phase = n)

PlanPhaseIds(n) == {t.id : t \in Range(PlanPhaseTasks(n))}

Completed(id) == HasRecord(State, id) /\ StatusOf(State, id) = "completed"

Pending(id) == HasRecord(State, id) /\ StatusOf(State, id) = "pending"

InProgress(id) == HasRecord(State, id) /\ StatusOf(State, id) = "in_progress"

\* Eligible, by the plan: pending, and every dependency has a completed record.
Eligible(id) == Pending(id) /\ \A d \in PlanTask(id).dependencies : Completed(d)

CurrentIds == PlanPhaseIds(State.currentPhase)

\* Ids reachable from the given ones along dependency references of the plan.
RECURSIVE DependencyClosure(_, _)
DependencyClosure(frontier, seen) ==
    LET step == UNION {PlanTask(x).dependencies : x \in frontier \cap PlanIds(Plan)} \ seen
    IN IF step = {} THEN seen ELSE DependencyClosure(step, seen \cup step)

\* A plan the data model allows: phases numbered 1..n, every dependency
\* declared in the plan, no task depending on itself directly or in a cycle.
ValidPlan ==
    /\ {Plan.phases[k].number : k \in DOMAIN Plan.phases} = 1..Len(Plan.phases)
    /\ \A id \in PlanIds(Plan) :
           /\ PlanTask(id).dependencies \subseteq PlanIds(Plan)
           /\ id \notin DependencyClosure({id}, {})

\* ------------------------------------------------------------------ claims

\* C1: whenever get_next_task answers with a next task, that task's record is
\* pending and every dependency the plan gives it has a record that is completed.
C1_NextIsEligible ==
    (Answered /\ result[1].kind = "next") =>
        /\ result[1].taskId \in PlanIds(Plan)
        /\ Pending(result[1].taskId)
        /\ \A d \in PlanTask(result[1].taskId).dependencies : Completed(d)

\* C1 witness: a task with a dependency in another phase is returned as next.
C1_Witness ==
    /\ Answered
    /\ result[1].kind = "next"
    /\ \E d \in PlanTask(result[1].taskId).dependencies :
           d \in PlanIds(Plan) /\ PlanTask(d).phase # State.currentPhase

\* C2: with no eligible task in the current phase, some of its tasks pending and
\* at least one in progress, the answer is blocked: it lists exactly the pending
\* tasks of the phase, each with exactly its dependencies that are not completed.
C2_BlockedListsUnmet ==
    (/\ Answered
     /\ \A id \in CurrentIds : ~Eligible(id)
     /\ \E id \in CurrentIds : Pending(id)
     /\ \E id \in CurrentIds : InProgress(id)) =>
        /\ result[1].kind = "blocked"
        /\ {b.taskId : b \in Range(result[1].blocked)} = {id \in CurrentIds : Pending(id)}
        /\ Len(result[1].blocked) = Cardinality({id \in CurrentIds : Pending(id)})
        /\ \A b \in Range(result[1].blocked) :
               b.unmetDependencies =
                   {d \in PlanTask(b.taskId).dependencies : ~Completed(d)}
        /\ Range(result[1].inProgress) = {id \in CurrentIds : InProgress(id)}

\* C2 witness: a blocked task is listed with one of its two dependencies, the
\* in-progress one, the other being completed.
C2_Witness ==
    /\ Answered
    /\ result[1].kind = "blocked"
    /\ \E b \in Range(result[1].blocked) :
           /\ b.unmetDependencies # {}
           /\ b.unmetDependencies # PlanTask(b.taskId).dependencies
           /\ \A d \in b.unmetDependencies : InProgress(d)

\* C3: a get_next_task call made when every task of the current phase is
\* completed answers phaseComplete for that phase, whatever the other phases
\* hold, and leaves state.json (currentPhase included) as it was.
C3_PhaseComplete ==
    [][(/\ op' \in {"query", "requery"}
        /\ stateFile # <<>>
        /\ CurrentIds # {}
        /\ \A id \in CurrentIds : Completed(id)) =>
           /\ result' = <<[kind |-> "phaseComplete", phase |-> State.currentPhase]>>
           /\ stateFile' = stateFile]_vars

\* C3 witness: phaseComplete is answered while a task of another phase is pending.
C3_Witness ==
    /\ Answered
    /\ result[1].kind = "phaseComplete"
    /\ CurrentIds # {}
    /\ \E id \in PlanIds(Plan) \ CurrentIds : Pending(id)

\* C4: a state in which tasks of the current phase are pending and none of them
\* is eligible is never answered with "no pending tasks".
C4_BlockedNeverNoPending ==
    (/\ Answered
     /\ ValidPlan
     /\ \E id \in CurrentIds : Pending(id)
     /\ \A id \in CurrentIds : ~Eligible(id)) =>
        result[1].kind # "noPending"

\* C5: with currentPhase moved to 2, a pending phase-2 task that depends on a
\* phase-1 task that is not completed is never the next task, and is listed as
\* blocked whenever no task is returned.
C5_CrossPhaseReportedBlocked ==
    (Answered /\ ValidPlan /\ State.currentPhase = 2) =>
        \A t \in PlanPhaseIds(2) :
            (/\ Pending(t)
             /\ \E d \in PlanTask(t).dependencies : d \in PlanPhaseIds(1) /\ ~Completed(d)) =>
                IF result[1].kind = "next"
                THEN result[1].taskId # t
                ELSE /\ result[1].kind = "blocked"
                     /\ \E b \in Range(result[1].blocked) : b.taskId = t

\* C6: the task returned as next is eligible and no task declared before it in
\* the current phase of the plan is eligible.
C6_FirstDeclaredEligible ==
    (Answered /\ result[1].kind = "next") =>
        LET tasks == PlanPhaseTasks(State.currentPhase)
        IN \E i \in DOMAIN tasks :
               /\ tasks[i].id = result[1].taskId
               /\ Eligible(tasks[i].id)
               /\ \A j \in 1..(i - 1) : ~Eligible(tasks[j].id)

\* C6 witness: task 2 of the phase, declared first, is returned while task 1 of
\* the phase, declared after it, is eligible too.
C6_Witness ==
    /\ Answered
    /\ result[1].kind = "next"
    /\ result[1].taskId = TaskId(State.currentPhase, 2)
    /\ Eligible(TaskId(State.currentPhase, 1))

\* C7: the returned task and every task listed as blocked or in progress is a
\* task the plan declares in the phase whose number is currentPhase.
C7_OnlyCurrentPhase ==
    Answered =>
        /\ result[1].kind = "next" => result[1].taskId \in CurrentIds
        /\ result[1].kind = "blocked" =>
               /\ Range(result[1].inProgress) \subseteq CurrentIds
               /\ {b.taskId : b \in Range(result[1].blocked)} \subseteq CurrentIds

\* C7 witness: currentPhase is 1, blocked is answered, and a task of the
\* multi-digit phase is in progress (and not listed).
C7_Witness ==
    /\ Answered
    /\ State.currentPhase = 1
    /\ result[1].kind = "blocked"
    /\ \E id \in PlanPhaseIds(HighPhase) : InProgress(id)

StateIds(sf) == IF sf = <<>> THEN {} ELSE {sf[1].tasks[i].id : i \in DOMAIN sf[1].tasks}

C10_KeysFollowPlan ==
    op = "reparse" =>
        /\ StateIds(stateFile) = PlanIds(Plan)
        /\ Len(State.tasks) = Cardinality(PlanIds(Plan))
        /\ \A id \in StateIds(stateFile) \ StateIds(prev) : Pending(id)

\* C10 witness: a re-parse has dropped one task id and added another while a
\* task kept from the old state is not pending.
C10_Witness ==
    /\ op = "reparse"
    /\ StateIds(prev) \ StateIds(stateFile) # {}
    /\ StateIds(stateFile) \ StateIds(prev) # {}
    /\ \E id \in StateIds(stateFile) \cap StateIds(prev) : ~Pending(id)

\* C11: after a re-parse over an existing state.json, every task id that the old
\* state and the new plan share has, in the state.json written, the completedAt
\* and the notes it had before.
C11_CompletedAtNotesPreserved ==
    (op = "reparse" /\ prev # <<>>) =>
        \A id \in StateIds(prev) \cap PlanIds(Plan) :
            /\ HasRecord(State, id)
            /\ RecordOf(State, id).completedAt = RecordOf(prev[1], id).completedAt
            /\ RecordOf(State, id).notes = RecordOf(prev[1], id).notes

\* C12: a re-parse over an existing state.json leaves currentPhase and the
\* checkpoints array as they were before it.
C12_PhaseAndCheckpointsCarried ==
    (op = "reparse" /\ prev # <<>>) =>
        /\ State.currentPhase = prev[1].currentPhase
        /\ State.checkpoints = prev[1].checkpoints

\* C13: a re-parse in which a step throws leaves PRD.md, the phase files,
\* state.json and tasks.json as they were.
C13_ReparseAllOrNothing ==
    [][op' = "reparseFailed" =>
          UNCHANGED <<prdFile, phaseFiles, stateFile, tasksFile>>]_vars

\* C14: when the write of state.json throws, reading state.json afterwards
\* gives what reading it gave before the write.
C14_FailedWriteKeepsState ==
    [][lastRun'.fault = "state" => readJson(stateFile') = readJson(stateFile)]_vars

Rank(status) ==
    CASE status = "pending" -> 0
      [] status = "in_progress" -> 1
      [] status = "completed" -> 2

\* C16: no step other than init and update moves the status of a task backward
\* (completed to in_progress or pending, in_progress to pending).
C16_NoBackwardMove ==
    [][(/\ op' \notin {"init", "reparse"}
        /\ readJson(stateFile) # <<>>
        /\ readJson(stateFile') # <<>>) =>
           \A id \in StateIds(stateFile) \cap StateIds(stateFile') :
               Rank(StatusOf(stateFile'[1], id)) >= Rank(StatusOf(stateFile[1], id))]_vars

\* C17: the task ids of a plan that has been parsed and written are pairwise
\* distinct (already among the plans whose ids carry the number of their phase).
C17_WrittenIdsDistinct ==
    (/\ prdFile # <<>>
     /\ \A t \in Range(PlanTasks(Plan)) : StartsWith(t.id, PhasePrefix(t.phase))) =>
        Len(PlanTasks(Plan)) = Cardinality(PlanIds(Plan))

\* C18: a plan that has been parsed and written, whose ids are distinct and
\* carry the number of their phase, whose dependencies all name tasks of the
\* plan and none the task itself, has no task that depends on itself through a
\* chain of dependencies.
C18_WrittenPlanAcyclic ==
    (/\ prdFile # <<>>
     /\ Len(PlanTasks(Plan)) = Cardinality(PlanIds(Plan))
     /\ \A t \in Range(PlanTasks(Plan)) :
            /\ StartsWith(t.id, PhasePrefix(t.phase))
            /\ t.dependencies \subseteq PlanIds(Plan) \ {t.id}) =>
        \A id \in PlanIds(Plan) : id \notin DependencyClosure({id}, {})

\* C19: after an init, totalTasks of the plan is the number of its tasks, and
\* tasks.json lists the plan's tasks one by one in phase and declaration order,
\* each with its id, phase and dependencies, under the same totalTasks.
C19_TotalTasks ==
    op = "init" =>
        /\ Plan.totalTasks = Len(PlanTasks(Plan))
        /\ tasksFile[1].totalTasks = Plan.totalTasks
        /\ Len(tasksFile[1].tasks) = Len(PlanTasks(Plan))
        /\ \A i \in DOMAIN tasksFile[1].tasks :
               /\ tasksFile[1].tasks[i].id = PlanTasks(Plan)[i].id
               /\ tasksFile[1].tasks[i].phase = PlanTasks(Plan)[i].phase
               /\ tasksFile[1].tasks[i].dependencies = PlanTasks(Plan)[i].dependencies

\* C19 witness: tasks.json of a two-phase plan lists a phase-2 task with a
\* dependency after the phase-1 task.
C19_Witness ==
    /\ op = "init"
    /\ Len(Plan.phases) = 2
    /\ tasksFile[1].totalTasks = 2
    /\ tasksFile[1].tasks[2].phase = 2
    /\ tasksFile[1].tasks[2].dependencies = {tasksFile[1].tasks[1].id}

\* C20: an init whose research call failed does not end at the research step:
\* when no later step throws, the plan, state.json and tasks.json are written
\* and the run is not reported as failed, and when the parse throws the run is
\* reported as failed.
C20_ResearchOptional ==
    (op \in {"init", "initFailed"} /\ lastRun.research = "failed") =>
        /\ lastRun.fault # "research"
        /\ lastRun.fault = "none" =>
               /\ op = "init"
               /\ prdFile # <<>>
               /\ stateFile = <<generateInitialState(Plan)>>
               /\ tasksFile = <<generateTasksJson(Plan)>>
        /\ lastRun.fault = "parse" => op = "initFailed"

\* C20 witness: an init whose research call failed has written the task files.
C20_Witness ==
    /\ op = "init"
    /\ lastRun.research = "failed"
    /\ stateFile # <<>>
    /\ tasksFile # <<>>

\* ------------------------------------------------------------------ C21

HasWarnings(validation) == "warnings" \in DOMAIN validation

\* C21: validateConfig answers valid with no errors exactly when an Anthropic
\* API key is set, whatever the Perplexity key; a missing Perplexity key gives
\* exactly one warning, which mentions Perplexity, and a Perplexity key that
\* is set gives no warning.
C21_ValidIffAnthropicKey ==
    op = "validateConfig" =>
        LET config == result[1].config
            validation == result[1].validation
        IN /\ validation.valid <=> Truthy(config, "anthropicApiKey")
           /\ (validation.errors = <<>>) <=> Truthy(config, "anthropicApiKey")
           /\ HasWarnings(validation)
           /\ IF HasWarnings(validation)
              THEN IF Truthy(config, "perplexityApiKey")
                   THEN validation.warnings = <<>>
                   ELSE /\ Len(validation.warnings) = 1
                        /\ "Perplexity" \in Range(validation.warnings[1])
              ELSE FALSE

\* ------------------------------------------------------------------ C22

\* C22: a create_prd call with interactive = true only returns PRD text: it
\* writes neither raw-prd.md nor PRD.md, phase files, state.json or
\* tasks.json, so the progress of an existing project stays as it is until a
\* call with interactive = false.
C22_InteractiveWritesNothing ==
    [][op' = "create_prd" /\ result'[1].call.interactive =>
          UNCHANGED <<rawPrdFile, prdFile, phaseFiles, stateFile, tasksFile>>]_vars

\* An interactive call has returned a PRD text over a project with progress.
C22_Witness ==
    /\ op = "create_prd"
    /\ result[1].call.interactive
    /\ result[1].call.refine
    /\ ~result[1].isError
    /\ readJson(stateFile) # <<>>
    /\ \E i \in DOMAIN stateFile[1].tasks : stateFile[1].tasks[i].status = "completed"

\* ------------------------------------------------------------------ C23

\* C23: whatever the language, package manager, framework and hasDocker of the
\* tech stack, when it gives a devCommand the init.sh generated from it starts
\* the development environment with that command.
C23_CustomDevCommandUsed ==
    op = "generateInitScript" =>
        LET tech == result[1].tech
        IN tech # <<>> /\ tech[1].devCommand # "" =>
               ScriptContains(result[1].script, tech[1].devCommand)

\* ------------------------------------------------------------------ C24

\* C24: loading the progress state answers not-found only when no state.json
\* has been written; a state.json that exists but cannot be parsed is never
\* answered as not-found.
C24_NotFoundOnlyWhenAbsent ==
    op \in {"query", "requery"} /\ result[1].kind = "noState" => stateFile = <<>>

\* ------------------------------------------------------------------ C25

\* C25: a read of the progress state that runs while a single writer rewrites
\* state.json sees the complete old state or the complete new one: it never
\* answers that there is no progress state while one is persisted.
C25_ReadSeesOldOrNew ==
    /\ op \in {"query", "requery"}
    /\ writing # <<>>
    /\ writing[1].old # <<>>
    => result[1].kind # "noState"

\* ------------------------------------------------------------------ C26

IsPrefix(s, t) == Len(s) <= Len(t) /\ SubSeq(t, 1, Len(s)) = s

\* C26: the checkpoints of the persisted progress state are append-only under
\* every operation: the checkpoints before a step are a prefix of those after.
C26_CheckpointsAppendOnly ==
    [][readJson(stateFile) # <<>> /\ readJson(stateFile') # <<>> =>
          IsPrefix(stateFile[1].checkpoints, stateFile'[1].checkpoints)]_vars

\* ------------------------------------------------------------------ C27

AllCompleted == \A id \in PlanIds(Plan) : Completed(id)

\* The agent has asked and got neither a task nor a completed phase, with
\* tasks still pending: no step of its loop is left.
Stuck ==
    /\ op \in {"query", "requery"}
    /\ result[1].kind \notin {"next", "phaseComplete"}
    /\ \E id \in PlanIds(Plan) : Pending(id)

\* No task depends on a task of a later phase.
NoForwardReference ==
    \A t \in Range(PlanTasks(Plan)) :
        \A d \in t.dependencies \cap PlanIds(Plan) : PlanTask(d).phase <= t.phase

\* C27, as claimed: for every valid plan, forward references included, the
\* agent loop never ends with tasks pending and completes every task.
C27_AgentCompletesEveryPlan ==
    /\ [](ValidPlan => ~Stuck)
    /\ ValidPlan ~> AllCompleted

\* C27, amended: for a valid plan without forward references the agent loop
\* never ends with tasks pending and completes every task.
C27_AgentCompletesOrderlyPlan ==
    /\ [](ValidPlan /\ NoForwardReference => ~Stuck)
    /\ (ValidPlan /\ NoForwardReference) ~> AllCompleted

\* The loop has completed a two-phase plan with a dependency across phases.
C27_Witness ==
    /\ ValidPlan
    /\ NoForwardReference
    /\ AllCompleted
    /\ \E t \in Range(PlanTasks(Plan)) :
           \E d \in t.dependencies : PlanTask(d).phase < t.phase

\* ------------------------------------------------------------------ C28

\* Task id -> status, as a JSON file with a tasks array gives them.
StatusById(file) ==
    {<<file[1].tasks[i].id, file[1].tasks[i].status>> : i \in DOMAIN file[1].tasks}

\* C28: after every successful write of the task files, by init or by a
\* re-parse, state.json and tasks.json hold the same task ids with the same
\* status for each.
C28_StateAndTasksAgree ==
    op \in {"init", "reparse"} => StatusById(stateFile) = StatusById(tasksFile)

\* ------------------------------------------------------------------ C29

NoDoublePick ==
    \A s \in Sessions, o \in Sessions :
        s # o => sessions[s].picked \cap sessions[o].picked = {}

\* Every task a session has marked in_progress is still marked.
NoLostUpdate ==
    \A s \in Sessions :
        \A id \in sessions[s].picked \ Range(sessions[s].pick) :
            readJson(stateFile) # <<>> => StatusOf(State, id) # "pending"

Serial == \A s \in Sessions : ~sessions[s].overlapped

\* C29, as claimed: with two sessions following the next-task protocol, in
\* every interleaving of their reads and writes no task is picked by both and
\* no status written by one is lost by the other's write.
C29_SessionsNeverCollide == NoDoublePick /\ NoLostUpdate

\* C29, amended: as long as no session reads state.json while another is
\* between its read and its write, no task is picked by both sessions and no
\* status written by one is lost.
C29_SerialSessionsNeverCollide == Serial => NoDoublePick /\ NoLostUpdate

\* Both sessions have picked and marked a task, one after the other.
C29_Witness ==
    /\ Serial
    /\ \A s \in Sessions : sessions[s].picked # {} /\ sessions[s].pick = <<>>

\* ------------------------------------------------------------------ C30

StoredKeys(file) ==
    IF file = <<>> THEN <<>>
    ELSE [f \in DOMAIN file[1] \cap KeyFields |-> file[1][f]]

\* C30: saveConfig changes only the fields passed to it: a save that passes no
\* API key leaves the API keys stored in the config file as they were, and an
\* API key is in the file after a save only if it was passed or was in the
\* file before.
C30_SaveKeepsStoredKeys ==
    [][op' = "saveConfig" =>
          LET saved == result'[1].saved
          IN /\ DOMAIN saved \cap KeyFields = {} =>
                    StoredKeys(configFile') = StoredKeys(configFile)
             /\ \A f \in DOMAIN StoredKeys(configFile') :
                    \/ f \in DOMAIN saved /\ saved[f] = configFile'[1][f]
                    \/ /\ f \in DOMAIN StoredKeys(configFile)
                       /\ configFile[1][f] = configFile'[1][f]]_vars

====
